---- MODULE Spec2Model ----
(***************************************************************************)
(* Backlog selection of burndown_server.py: one call of                    *)
(* _get_burndown_tasks_impl(limit, prioritize_parents) against the         *)
(* Azure DevOps WIQL and work-item endpoints.  Every HTTP round trip is    *)
(* one action; the responses of the service are chosen nondeterministically*)
(* (an exception of the HTTP client, a non-200 status, or a 200 body).     *)
(* Spec runs the call under every configuration against a service that     *)
(* answers each query with distinct items; SpecRepeats runs it under a     *)
(* valid configuration against a service whose answers may repeat items.   *)
(* A hydrated work item is represented by its id.                          *)
(***************************************************************************)
EXTENDS Integers, Sequences, FiniteSets, TLC

\* ------------------------------------------------------------------ bounds
MaxId == 5          \* work item ids are 1..MaxId
MaxRefs == 3        \* longest workItems list of the open-item query
MaxRows == 2        \* longest workItems list of the child query
MaxLimit == 2       \* largest limit argument tried
MaxPartial == 3     \* longest chunk of which any subset may fail to resolve
MaxChunks == 2      \* full chunks in a direct call of get_work_items
MaxServers == 2     \* most mcpServers entries of an existing mcp.json
MaxSteps == 2       \* most &&-joined steps of an existing postCreateCommand
MaxMounts == 1      \* most entries of an existing mounts list
MaxEnvLines == 2    \* most lines of an existing .env
\* characters of a title next to a run of letters
MaxNameLen == 3

\* ------------------------------------------------------- program constants
chunk_size == 200
parent_factor == 3

Ids == 1..MaxId
Limits == (0 - 1)..MaxLimit
None == "None"          \* Python None where a string is expected

\* ------------------------------------------------------------ pure helpers
Min(a, b) == IF a < b THEN a ELSE b

SeqsUpTo(S, n) == UNION {[1..k -> S] : k \in 0..n}

\* Python s[:n] for n >= 0
Take(s, n) == SubSeq(s, 1, Min(n, Len(s)))

\* variant: the slice runs one element into the next one
SliceInclusive(s, i, n) == SubSeq(s, i + 1, Min(i + n + 1, Len(s)))

\* Python s[i:i+n] with a 0-based start i
Slice(s, i, n) == SubSeq(s, i + 1, Min(i + n, Len(s)))

Range(s) == {s[i] : i \in 1..Len(s)}

\* ---------------------------------------------------------- configuration
\* a URL is its host and the '/'-separated segments of its path
NoUrl == [host |-> "", path |-> <<>>]   \* variable unset or empty
Urls ==
    {NoUrl,
     [host |-> "dev.azure.com", path |-> <<>>],
     [host |-> "dev.azure.com", path |-> <<"org", "">>],
     [host |-> "dev.azure.com", path |-> <<"org", "", "my%20proj">>],
     [host |-> "contoso.visualstudio.com", path |-> <<"">>],
     [host |-> "contoso.visualstudio.com", path |-> <<"proj", "_apis">>],
     [host |-> "example.com", path |-> <<"org", "proj">>]}

\* urllib.parse.unquote on the segments used here
unquote(seg) == IF seg = "my%20proj" THEN "my proj" ELSE seg

\* [p for p in parsed.path.split('/') if p]
path_parts(url) == SelectSeq(url.path, LAMBDA p : p # "")

\* variant: a dev.azure.com URL that names only the organization is accepted
extract_project_name_org_only(ado_url) ==
    IF ado_url = NoUrl THEN None
    ELSE IF ado_url.host = "dev.azure.com"
         THEN IF Len(path_parts(ado_url)) >= 1
              THEN unquote(path_parts(ado_url)[Len(path_parts(ado_url))])
              ELSE None
    ELSE IF ado_url.host = "contoso.visualstudio.com"
         THEN IF Len(path_parts(ado_url)) >= 1
              THEN unquote(path_parts(ado_url)[1]) ELSE None
    ELSE None

extract_project_name(ado_url) ==
    IF ado_url = NoUrl THEN None
    ELSE IF ado_url.host = "dev.azure.com"
         THEN IF Len(path_parts(ado_url)) >= 2
              THEN unquote(path_parts(ado_url)[2]) ELSE None
    ELSE IF ado_url.host = "contoso.visualstudio.com"
         THEN IF Len(path_parts(ado_url)) >= 1
              THEN unquote(path_parts(ado_url)[1]) ELSE None
    ELSE None

VARIABLES
    ADO_ORG_URL,        \* module global, read at import
    ADO_PAT,            \* module global: TRUE iff a token is configured
    project_name,       \* module global, extract_project_name(ADO_ORG_URL)
    api_conforms,       \* environment: no answer of the service lists an
                        \* item twice
    backlog_min,        \* environment: least number of open items the
                        \* project holds
    pc,                 \* position inside the call
    limit,              \* argument
    prioritize_parents, \* argument
    parents,            \* parents / refs: the list got from the open-item query
    parent_ids,         \* capped candidate ids
    children,           \* rows got from the child query (<<>> also for None)
    child_id_map,       \* parent id -> list of child ids (<<>>: no key)
    idx,                \* position of the for-loop over parent_ids
    tasks,              \* accumulated items
    seen_ids,           \* ids already appended
    hyd_ids,            \* argument of the running get_work_items call
    hyd_i,              \* its chunk offset i
    all_items,          \* its accumulator
    hyd_bodies,         \* the value list of each of its responses so far
    outcome,            \* how the call ended
    report,             \* ids of the item lines of the returned report
    report_count,       \* the number in the report's count header
    http_log,           \* every HTTP request issued, in order
    visits,             \* one record per candidate the loop has handled
    \* setup.py (BurndownSetup) and cli.py (sanitize_branch_name)
    step,               \* position inside BurndownSetup.run or a direct call
    os_environ,         \* os.environ: variable name -> value ("" unset)
    collected_secrets,  \* self.collected_secrets, in insertion order
    config_data,        \* self.config_data["mcpServers"], in insertion order
    mcp_json,           \* the file .roo/mcp.json
    env_file,           \* the file .env
    gitignore,          \* the file .gitignore
    devcontainer,       \* the file devcontainer.json
    fault,              \* the exception or exit that ended the run
    console,            \* what was printed, by message
    name,               \* argument of sanitize_branch_name
    sanitized_title     \* its return value

vars == <<ADO_ORG_URL, ADO_PAT, project_name, api_conforms, backlog_min, pc,
          limit,
          prioritize_parents, parents, parent_ids, children, child_id_map,
          idx, tasks, seen_ids, hyd_ids, hyd_i, all_items, hyd_bodies, outcome,
          report, report_count, http_log, visits, step, os_environ,
          collected_secrets, config_data, mcp_json, env_file, gitignore,
          devcontainer, fault, console, name, sanitized_title>>

config == <<ADO_ORG_URL, ADO_PAT, project_name, api_conforms, backlog_min>>
args == <<limit, prioritize_parents>>
wiql_state == <<parents, parent_ids, children, child_id_map>>
hyd_state == <<hyd_ids, hyd_i, all_items, hyd_bodies>>
result_state == <<outcome, report, report_count>>
server_state == <<config, pc, args, wiql_state, idx, tasks, seen_ids,
                  hyd_state, result_state, http_log, visits>>
files == <<mcp_json, env_file, gitignore, devcontainer>>
setup_state == <<step, os_environ, collected_secrets, config_data, files,
                 fault, console>>
cli_state == <<name, sanitized_title>>
tools == <<setup_state, cli_state>>

InitCall ==
    /\ pc = "call"
    /\ limit = 0
    /\ prioritize_parents = TRUE
    /\ parents = <<>>
    /\ parent_ids = <<>>
    /\ children = <<>>
    /\ child_id_map = [p \in Ids |-> <<>>]
    /\ idx = 1
    /\ tasks = <<>>
    /\ seen_ids = {}
    /\ hyd_ids = <<>>
    /\ hyd_i = 0
    /\ all_items = <<>>
    /\ hyd_bodies = <<>>
    /\ outcome = "none"
    /\ report = <<>>
    /\ report_count = 0
    /\ http_log = <<>>
    /\ visits = <<>>

\* a text is the sequence of its tokens: a word, or one of the characters
\* the programs look for (space, newline, =, #, quotes)
AbsentFile == [exists |-> FALSE, text |-> <<>>]

EnvNames == {"ROO_CODE_PROFILE_NAME", "GITHUB_PERSONAL_ACCESS_TOKEN",
             "AZURE_DEVOPS_SCOPE", "AZURE_DEVOPS_EXT_PAT"}

\* setup.py and cli.py not started
ToolsIdle ==
    /\ step = "idle"
    /\ os_environ = [n \in EnvNames |-> <<>>]
    /\ collected_secrets = <<>>
    /\ config_data = <<>>
    /\ mcp_json = [exists |-> FALSE, valid |-> FALSE, root |-> <<>>]
    /\ env_file = AbsentFile
    /\ gitignore = AbsentFile
    /\ devcontainer = [exists |-> FALSE, valid |-> FALSE, data |-> <<>>]
    /\ fault = "none"
    /\ console = <<>>
    /\ name = <<>>
    /\ sanitized_title = <<>>

\* state after import of burndown_server, lines 16-46
Init ==
    /\ ADO_ORG_URL \in Urls
    /\ ADO_PAT \in BOOLEAN
    /\ project_name = extract_project_name(ADO_ORG_URL)
    /\ api_conforms = TRUE
    /\ backlog_min = 0
    /\ InitCall
    /\ ToolsIdle

\* raise ... : the call ends with an exception of the given class
Raise(cls) ==
    /\ pc' = "done"
    /\ outcome' = cls
    /\ UNCHANGED <<report, report_count>>

\* variant: only a negative limit is rejected
EntryCheckNegativeOnly(l, pn) ==
    IF l < 0 THEN "ValueError"
    ELSE IF pn = None THEN "ConfigError"
    ELSE "proceed"

\* lines 129-132: the checks made before anything is queried
EntryCheck(l, pn) ==
    IF l <= 0 THEN "ValueError"
    ELSE IF pn = None THEN "ConfigError"
    ELSE "proceed"

\* _get_burndown_tasks_impl, entry: argument and configuration checks
Invoke ==
    /\ pc = "call"
    /\ \E l \in Limits, m \in BOOLEAN :
        /\ limit' = l
        /\ prioritize_parents' = m
        /\ IF EntryCheck(l, project_name) = "ValueError"
           THEN Raise("ValueError")
           ELSE IF EntryCheck(l, project_name) = "ConfigError"
                THEN \* the error text is returned, not raised
                     /\ pc' = "done"
                     /\ outcome' = "ConfigError"
                     /\ UNCHANGED <<report, report_count>>
           ELSE /\ pc' = "open_query"
                /\ UNCHANGED result_state
    /\ UNCHANGED <<tools, config, wiql_state, idx, tasks, seen_ids, hyd_state,
                   http_log, visits>>

\* ------------------------------------------------------------ the service
Statuses == {"ok", "err", "exc"}   \* 200 body, non-200 status, client exception

\* the state names both open-item queries and the child query exclude
ClosedStates == {"Closed", "Removed", "Resolved", "Done", "Completed"}

\* a WIQL text by its clauses: the [System.TeamProject] value of the
\* project filter (None: no such clause), the ids of [System.Parent] IN,
\* the names of [System.State] NOT IN, and whether it orders by priority
Wiql(team_project, parent_in, state_not_in, by_priority) ==
    [team_project |-> team_project, parent_in |-> parent_in,
     state_not_in |-> state_not_in, by_priority |-> by_priority]

\* a request that carries no WIQL text
NoQuery == Wiql(None, <<>>, {}, FALSE)

\* line 134
project_filter(pn) == pn

\* line 139: the open-item query of the parent-aware mode
pq(pn) == Wiql(project_filter(pn), <<>>, ClosedStates, TRUE)

\* variant: the child query carries no project filter
cq_any_project(pn, pids) == Wiql(None, pids, ClosedStates, FALSE)

\* lines 152-153: the child query
cq(pn, pids) == Wiql(project_filter(pn), pids, ClosedStates, FALSE)

\* line 188: the open-item query of the direct mode
q(pn) == Wiql(project_filter(pn), <<>>, ClosedStates, TRUE)

\* one request as the service saw it; complete: it answered 200 and, for a
\* hydration chunk, with exactly the requested items
LogEntry(kind, query, ids, status, complete) ==
    [kind |-> kind, query |-> query, ids |-> ids, status |-> status,
     complete |-> complete]

\* workItems rows of the child query: the child's id and its parent's
\* (every row carries a parent, so the test of line 160 passes)
Rows == [id : Ids, parent : Ids]

Max(S) == CHOOSE m \in S : \A x \in S : x <= m

\* The program only compares ids for equality, so the ids of one run are
\* numbered in the order in which the service first mentions them.
FirstAppearanceOrder(s) ==
    \A i \in 1..Len(s) : s[i] <= 1 + Max({0} \cup {s[j] : j \in 1..(i - 1)})

RECURSIVE RowIds(_)
RowIds(rows) ==
    IF rows = <<>> THEN <<>>
    ELSE <<Head(rows).id, Head(rows).parent>> \o RowIds(Tail(rows))

ParentOf(rows, x) ==
    IF \E i \in 1..Len(rows) : rows[i].id = x
    THEN rows[CHOOSE i \in 1..Len(rows) : rows[i].id = x].parent
    ELSE 0

RECURSIVE HasAncestor(_, _, _, _)
HasAncestor(rows, x, a, n) ==
    /\ n > 0
    /\ ParentOf(rows, x) # 0
    /\ \/ ParentOf(rows, x) = a
       \/ HasAncestor(rows, ParentOf(rows, x), a, n - 1)

\* bodies of the open-item query (a repeating service may list an id twice)
OpenBodies ==
    {s \in SeqsUpTo(Ids, IF backlog_min > MaxRefs THEN backlog_min ELSE MaxRefs) :
        /\ Len(s) >= backlog_min
        /\ FirstAppearanceOrder(s)
        /\ api_conforms => \A i, j \in 1..Len(s) : s[i] = s[j] => i = j}

\* bodies of the child query for the candidate ids cands, after the
\* open-item query returned refs: distinct items, each the child of a
\* queried id, in a tree.
ChildBodies(refs, cands) ==
    {rows \in SeqsUpTo(Rows, MaxRows) :
        /\ FirstAppearanceOrder(refs \o RowIds(rows))
        /\ \A i, j \in 1..Len(rows) : rows[i].id = rows[j].id => i = j
        /\ \A i \in 1..Len(rows) :
            /\ rows[i].parent \in Range(cands)
            /\ ~HasAncestor(rows, rows[i].id, rows[i].id, Len(rows))}

\* run_wiql(query): the value returned for a response
\* ([none |-> TRUE, ...] is Python None: the non-200 branch returns nothing)
run_wiql(status, workItems) ==
    IF status = "ok" THEN [none |-> FALSE, list |-> workItems]
    ELSE IF status = "exc" THEN [none |-> FALSE, list |-> <<>>]
    ELSE [none |-> TRUE, list |-> <<>>]

\* subsequences of s, in order (the requested ids that resolve)
RECURSIVE SubSeqs(_)
SubSeqs(s) ==
    IF s = <<>> THEN {<<>>}
    ELSE LET rest == SubSeqs(Tail(s))
         IN rest \cup {<<Head(s)>> \o r : r \in rest}

\* the requested ids that resolve: any of them for a chunk of at most
\* MaxPartial ids; all, none, all but the first or all but the last for a
\* longer one
Resolving(chunk) ==
    IF Len(chunk) <= MaxPartial THEN SubSeqs(chunk)
    ELSE {chunk, <<>>, Tail(chunk), Take(chunk, Len(chunk) - 1)}

\* value lists a 200 response to GET workitems?ids=chunk may carry
\* (the requested items that still resolve, in request order; a repeating
\* service may deliver that list twice over)
HydrationBodies(chunk) ==
    IF api_conforms THEN Resolving(chunk)
    ELSE Resolving(chunk) \cup {b \o b : b \in Resolving(chunk)}

\* get_work_items(ids), lines 105-110: nothing is requested for no ids
CallHydrate(ids) ==
    /\ hyd_ids' = ids
    /\ hyd_i' = 0
    /\ all_items' = <<>>
    /\ hyd_bodies' = <<>>
    /\ pc' = IF ids = <<>> THEN "hydrated" ELSE "hydrate"

\* variant: every reference of the open-item query is a candidate
CapParentsNone(ps, lim) == ps

\* lines 146-148: max_parents and parent_ids
CapParents(ps, lim) == Take(ps, Min(Len(ps), lim * parent_factor))

\* variant: every reference is hydrated
DirectIdsAll(refs, lim) == refs

\* line 190: [r['id'] for r in refs[:limit]]
DirectIds(refs, lim) == Take(refs, lim)

\* lines 139-149 and 188-190: run_wiql on the open-item query and what
\* follows it up to the next request
OpenQuery ==
    /\ pc = "open_query"
    /\ IF ADO_ORG_URL = NoUrl \/ ~ADO_PAT
       THEN \* run_wiql raises before any request; re-raised at line 206
            /\ Raise("Exception")
            /\ UNCHANGED <<wiql_state, hyd_state, http_log>>
       ELSE \E status \in Statuses, workItems \in OpenBodies \cup {<<>>} :
            /\ status # "ok" => workItems = <<>>
            /\ status = "ok" => workItems \in OpenBodies
            /\ http_log' = Append(http_log, LogEntry("open",
                        IF prioritize_parents THEN pq(project_name)
                        ELSE q(project_name),
                        <<>>, status, status = "ok"))
            /\ LET r == run_wiql(status, workItems) IN
               IF prioritize_parents
               THEN LET ps == IF r.none THEN <<>> ELSE r.list IN
                    /\ parents' = ps
                    /\ parent_ids' = CapParents(ps, limit)
                    /\ pc' = IF CapParents(ps, limit) # <<>>
                             THEN "child_query" ELSE "render"
                    /\ UNCHANGED <<children, child_id_map, hyd_state,
                                   result_state>>
               ELSE /\ parents' = r.list
                    /\ UNCHANGED <<parent_ids, children, child_id_map>>
                    /\ IF r.none
                       THEN \* refs[:limit] on None: TypeError, line 206
                            /\ Raise("Exception")
                            /\ UNCHANGED hyd_state
                       ELSE /\ CallHydrate(DirectIds(r.list, limit))
                            /\ UNCHANGED result_state
    /\ UNCHANGED <<tools, config, args, idx, tasks, seen_ids, visits>>

\* lines 155-161: child_id_map built from the rows of the child query
ChildIdMap(rows) ==
    [p \in Ids |-> LET of_p == SelectSeq(rows, LAMBDA c : c.parent = p)
                   IN [i \in 1..Len(of_p) |-> of_p[i].id]]

\* lines 150-161: the batched child query
ChildQuery ==
    /\ pc = "child_query"
    /\ \E status \in Statuses, workItems \in ChildBodies(parents, parent_ids) :
        /\ status # "ok" => workItems = <<>>
        /\ http_log' = Append(http_log, LogEntry("children",
                                cq(project_name, parent_ids), parent_ids,
                                status, status = "ok"))
        /\ LET r == run_wiql(status, workItems) IN
            /\ children' = r.list
            /\ child_id_map' = IF r.none \/ r.list = <<>>
                               THEN [p \in Ids |-> <<>>]
                               ELSE ChildIdMap(r.list)
    /\ idx' = 1
    /\ pc' = "loop"
    /\ UNCHANGED <<tools, config, args, parents, parent_ids, tasks, seen_ids,
                   hyd_state, result_state, visits>>

\* variant: only children are ever hydrated
HydrateTargetChildrenOnly(cmap, pid) == cmap[pid]

\* lines 166-168 and 175-177: the ids handed to get_work_items for pid
HydrateTarget(cmap, pid) ==
    IF cmap[pid] # <<>> THEN cmap[pid] ELSE <<pid>>

\* variant: the loop ends only when the candidates are exhausted
LoopEndsAtExhaustion(i, n, ts, lim) == i > n

\* lines 163-164: the for loop is exhausted, or `if len(tasks) >= limit: break`
LoopEnds(i, n, ts, lim) == i > n \/ Len(ts) >= lim

\* lines 163-168, 177: head of the loop over parent_ids, up to the call
\* of get_work_items (line 106: no request for an empty list)
VisitParent ==
    /\ pc = "loop"
    /\ IF LoopEnds(idx, Len(parent_ids), tasks, limit)
       THEN /\ pc' = "render"
            /\ UNCHANGED hyd_state
       ELSE LET pid == parent_ids[idx] IN
            CallHydrate(HydrateTarget(child_id_map, pid))
    /\ UNCHANGED <<tools, config, args, wiql_state, idx, tasks, seen_ids,
                   result_state, http_log, visits>>

\* variant: a non-200 response ends the loop as an exception does
ChunkAbortsUnlessOk(status) == status # "ok"

\* lines 114-122: a requests.RequestException leaves the loop (re-raised at
\* line 122); a non-200 response is printed and the loop goes on
ChunkAborts(status) == status = "exc"

\* get_work_items, lines 111-122: one iteration of the chunk loop
HydrateChunk ==
    /\ pc = "hydrate"
    /\ hyd_i < Len(hyd_ids)
    /\ LET chunk == Slice(hyd_ids, hyd_i, chunk_size) IN
       IF ~ADO_PAT
       THEN \* get_headers raises inside the try; not a RequestException
            /\ Raise("Exception")
            /\ UNCHANGED <<hyd_state, http_log>>
       ELSE
       \E status \in Statuses :
        /\ IF ChunkAborts(status)
           THEN \* re-raised at 122, then at 206
                /\ Raise("Exception")
                /\ http_log' = Append(http_log,
                                      LogEntry("workitems", NoQuery, chunk,
                                               status, FALSE))
                /\ UNCHANGED hyd_state
           ELSE /\ \E value \in HydrationBodies(chunk) :
                    /\ status # "ok" => value = <<>>
                    /\ all_items' = all_items \o value
                    /\ hyd_bodies' = Append(hyd_bodies, value)
                    /\ http_log' = Append(http_log,
                            LogEntry("workitems", NoQuery, chunk, status,
                                     status = "ok" /\ value = chunk))
                /\ hyd_i' = hyd_i + chunk_size
                /\ pc' = IF hyd_i + chunk_size < Len(hyd_ids)
                         THEN "hydrate" ELSE "hydrated"
                /\ UNCHANGED <<hyd_ids, result_state>>
    /\ UNCHANGED <<tools, config, args, wiql_state, idx, tasks, seen_ids, visits>>

\* variant: the loop stops one item short of limit
RECURSIVE AppendUnseenShort(_, _, _, _)
AppendUnseenShort(ts, seen, items, lim) ==
    IF items = <<>> \/ Len(ts) >= lim - 1
    THEN [tasks |-> ts, seen_ids |-> seen]
    ELSE IF Head(items) \in seen
         THEN AppendUnseenShort(ts, seen, Tail(items), lim)
    ELSE AppendUnseenShort(Append(ts, Head(items)), seen \cup {Head(items)},
                           Tail(items), lim)

\* variant: no seen-id test
RECURSIVE AppendAll(_, _, _, _)
AppendAll(ts, seen, items, lim) ==
    IF items = <<>> \/ Len(ts) >= lim THEN [tasks |-> ts, seen_ids |-> seen]
    ELSE AppendAll(Append(ts, Head(items)), seen \cup {Head(items)},
                   Tail(items), lim)

\* variant: an appended id is not added to the seen set
RECURSIVE AppendUnmarked(_, _, _, _)
AppendUnmarked(ts, seen, items, lim) ==
    IF items = <<>> \/ Len(ts) >= lim THEN [tasks |-> ts, seen_ids |-> seen]
    ELSE IF Head(items) \in seen
         THEN AppendUnmarked(ts, seen, Tail(items), lim)
    ELSE AppendUnmarked(Append(ts, Head(items)), seen, Tail(items), lim)

\* lines 169-174 and 178-183: append the items not yet seen, up to limit
RECURSIVE AppendUnseen(_, _, _, _)
AppendUnseen(ts, seen, items, lim) ==
    IF items = <<>> \/ Len(ts) >= lim THEN [tasks |-> ts, seen_ids |-> seen]
    ELSE IF Head(items) \in seen
         THEN AppendUnseen(ts, seen, Tail(items), lim)
    ELSE AppendUnseen(Append(ts, Head(items)), seen \cup {Head(items)},
                      Tail(items), lim)

\* get_work_items has returned: its frame is gone
ReturnHydrate ==
    /\ hyd_ids' = <<>>
    /\ hyd_i' = 0
    /\ all_items' = <<>>
    /\ hyd_bodies' = <<>>

\* lines 168-183: get_work_items has returned inside the loop
AppendItems ==
    /\ pc = "hydrated"
    /\ prioritize_parents
    /\ LET r == AppendUnseen(tasks, seen_ids, all_items, limit) IN
        /\ tasks' = r.tasks
        /\ seen_ids' = r.seen_ids
    /\ visits' = Append(visits,
                        [pid |-> parent_ids[idx],
                         childless |-> child_id_map[parent_ids[idx]] = <<>>,
                         resolved |-> parent_ids[idx] \in Range(all_items)])
    /\ idx' = idx + 1
    /\ pc' = "loop"
    /\ ReturnHydrate
    /\ UNCHANGED <<tools, config, args, wiql_state, result_state, http_log>>

\* line 190: tasks.extend(get_work_items(...))
DirectExtend ==
    /\ pc = "hydrated"
    /\ ~prioritize_parents
    /\ tasks' = tasks \o all_items
    /\ pc' = "render"
    /\ ReturnHydrate
    /\ UNCHANGED <<tools, config, args, wiql_state, idx, seen_ids,
                   result_state, http_log, visits>>

\* variant: no test for an empty selection
RenderOutcomeAlwaysReport(ts) == "Report"

\* line 192: if not tasks
RenderOutcome(ts) == IF ts = <<>> THEN "BacklogClear" ELSE "Report"

\* variant: every accumulated item is listed
ReportItemsAll(ts, lim) == ts

\* lines 195-196: tasks[:limit]
ReportItems(ts, lim) == Take(ts, lim)

\* variant: the header counts every accumulated item
HeaderCountAll(ts, lim) == Len(ts)

\* line 195: len(tasks[:limit]) in the header
HeaderCount(ts, lim) == Len(Take(ts, lim))

\* lines 192-202: the returned text
Render ==
    /\ pc = "render"
    /\ outcome' = RenderOutcome(tasks)
    /\ IF RenderOutcome(tasks) = "BacklogClear"
       THEN UNCHANGED <<report, report_count>>
       ELSE /\ report' = ReportItems(tasks, limit)
            /\ report_count' = HeaderCount(tasks, limit)
    /\ pc' = "done"
    /\ UNCHANGED <<tools, config, args, wiql_state, idx, tasks, seen_ids, hyd_state,
                   http_log, visits>>

Next ==
    \/ Invoke
    \/ OpenQuery
    \/ ChildQuery
    \/ VisitParent
    \/ HydrateChunk
    \/ AppendItems
    \/ DirectExtend
    \/ Render

Spec == Init /\ [][Next]_vars

\* a valid configuration, and a service whose answers may repeat items
InitRepeats ==
    /\ ADO_ORG_URL = [host |-> "contoso.visualstudio.com",
                      path |-> <<"proj", "_apis">>]
    /\ ADO_PAT = TRUE
    /\ project_name = extract_project_name(ADO_ORG_URL)
    /\ api_conforms = FALSE
    /\ backlog_min = 0
    /\ InitCall
    /\ ToolsIdle

SpecRepeats == InitRepeats /\ [][Next]_vars

\* the shortest backlog that the cap on the candidates cuts (at limit 1)
LongBacklog == parent_factor + 1

\* a valid configuration, and a project with at least LongBacklog open items
InitBacklog ==
    /\ ADO_ORG_URL = [host |-> "contoso.visualstudio.com",
                      path |-> <<"proj", "_apis">>]
    /\ ADO_PAT = TRUE
    /\ project_name = extract_project_name(ADO_ORG_URL)
    /\ api_conforms = TRUE
    /\ backlog_min = LongBacklog
    /\ InitCall
    /\ ToolsIdle

SpecBacklog == InitBacklog /\ [][Next]_vars

\* ------------------------------------------- get_work_items called directly
\* lengths around the multiples of chunk_size
HydrateSizes ==
    {0, 1, 50} \cup {k * chunk_size + d : k \in 1..MaxChunks,
                                         d \in {0 - 1, 0, 1, 50}}

\* the module imported with a usable organisation URL; the token may be unset
InitHydrate ==
    /\ ADO_ORG_URL = [host |-> "contoso.visualstudio.com",
                      path |-> <<"proj", "_apis">>]
    /\ ADO_PAT \in BOOLEAN
    /\ project_name = extract_project_name(ADO_ORG_URL)
    /\ api_conforms = TRUE
    /\ backlog_min = 0
    /\ InitCall
    /\ ToolsIdle

\* get_work_items(ids) called on a list of n distinct ids
GetWorkItems ==
    /\ pc = "call"
    /\ \E n \in HydrateSizes : CallHydrate([i \in 1..n |-> i])
    /\ UNCHANGED <<tools, config, args, wiql_state, idx, tasks, seen_ids,
                   result_state, http_log, visits>>

NextHydrate == GetWorkItems \/ HydrateChunk

SpecHydrate == InitHydrate /\ [][NextHydrate]_vars


\* ===================================================== setup.py: texts
Whitespace == {" ", "\n"}

RECURSIVE lstrip(_)
lstrip(s) ==
    IF s # <<>> /\ Head(s) \in Whitespace THEN lstrip(Tail(s)) ELSE s

RECURSIVE rstrip(_)
rstrip(s) ==
    IF s # <<>> /\ s[Len(s)] \in Whitespace
    THEN rstrip(SubSeq(s, 1, Len(s) - 1)) ELSE s

\* str.strip()
strip(s) == rstrip(lstrip(s))

\* str.strip(c) for one character c
RECURSIVE strip_char(_, _)
strip_char(s, c) ==
    IF s # <<>> /\ Head(s) = c THEN strip_char(Tail(s), c)
    ELSE IF s # <<>> /\ s[Len(s)] = c
         THEN strip_char(SubSeq(s, 1, Len(s) - 1), c)
    ELSE s

\* str.startswith(c) and str.endswith(c) for one character c
startswith(s, c) == s # <<>> /\ Head(s) = c
endswith(s, c) == s # <<>> /\ s[Len(s)] = c

\* position of the first c in s, 0 if there is none
IndexOf(s, c) ==
    IF c \in Range(s) THEN CHOOSE i \in 1..Len(s) :
                               s[i] = c /\ \A j \in 1..(i - 1) : s[j] # c
    ELSE 0

\* str.split(c, 1) for a text that holds c
split1(s, c) ==
    [head |-> SubSeq(s, 1, IndexOf(s, c) - 1),
     tail |-> SubSeq(s, IndexOf(s, c) + 1, Len(s))]

\* str.splitlines()
RECURSIVE splitlines(_)
splitlines(s) ==
    IF s = <<>> THEN <<>>
    ELSE IF IndexOf(s, "\n") = 0 THEN <<s>>
    ELSE <<split1(s, "\n").head>> \o splitlines(split1(s, "\n").tail)

\* dict as the sequence of its <<key, value>> items, in insertion order
DictKeys(d) == {d[i][1] : i \in 1..Len(d)}
DictGet(d, k, default) ==
    IF k \in DictKeys(d)
    THEN d[CHOOSE i \in 1..Len(d) : d[i][1] = k][2] ELSE default
DictSet(d, k, v) ==
    IF k \in DictKeys(d)
    THEN [i \in 1..Len(d) |-> IF d[i][1] = k THEN <<k, v>> ELSE d[i]]
    ELSE Append(d, <<k, v>>)

\* dict.update(u)
RECURSIVE DictUpdate(_, _)
DictUpdate(d, u) ==
    IF u = <<>> THEN d
    ELSE DictUpdate(DictSet(d, Head(u)[1], Head(u)[2]), Tail(u))

\* a line of .env that assigns: not blank, no comment, holds "="
IsAssignment(line) ==
    line # <<>> /\ ~startswith(line, "#") /\ "=" \in Range(line)

\* _load_env_file, lines 73-78: the variables of .env that os.environ lacks
\* (the key is taken as split, without a further strip)
RECURSIVE LoadLines(_, _)
LoadLines(lines, env) ==
    IF lines = <<>> THEN env
    ELSE LET line == strip(Head(lines))
             key == split1(line, "=").head
             value == strip_char(strip_char(split1(line, "=").tail, "'"), "\"")
         IN IF IsAssignment(line)
                /\ \E n \in EnvNames : key = <<n>> /\ env[n] = <<>>
            THEN LoadLines(Tail(lines),
                           [env EXCEPT ![key[1]] = value])
            ELSE LoadLines(Tail(lines), env)

\* _load_env_file, lines 69-79
load_env_file(file, env) ==
    IF ~file.exists THEN env ELSE LoadLines(splitlines(file.text), env)

\* _save_secrets_to_env, lines 386-391: the keys .env assigns
existing_keys(content) ==
    {strip(split1(strip(l), "=").head) :
        l \in {x \in Range(splitlines(content)) : IsAssignment(strip(x))}}

\* lines 394-397: one KEY=value line per secret whose key .env lacks
RECURSIVE new_lines(_, _)
new_lines(secrets, keys) ==
    IF secrets = <<>> THEN <<>>
    ELSE (IF <<Head(secrets)[1]>> \notin keys
          THEN <<<<Head(secrets)[1], "=">> \o Head(secrets)[2]>>
          ELSE <<>>) \o new_lines(Tail(secrets), keys)

\* lines 407-408: each line written with its newline
RECURSIVE WriteLines(_)
WriteLines(lines) ==
    IF lines = <<>> THEN <<>>
    ELSE Head(lines) \o <<"\n">> \o WriteLines(Tail(lines))

\* variant: .env is always opened for writing
OpenModeWrite(exists) == "w"

\* line 402
OpenMode(exists) == IF exists THEN "a" ELSE "w"

\* _save_secrets_to_env, lines 379-412, on the file: the file afterwards and
\* whether anything was written
save_secrets_to_env(file, secrets) ==
    LET content == IF file.exists THEN file.text ELSE <<>>
        lines == new_lines(secrets, existing_keys(content))
        mode == OpenMode(file.exists)
    IN IF lines = <<>> THEN [file |-> file, wrote |-> FALSE]
       ELSE [file |-> [exists |-> TRUE,
                       text |-> (IF mode = "a" THEN content ELSE <<>>)
                                \o (IF mode = "a" /\ content # <<>>
                                        /\ ~endswith(content, "\n")
                                    THEN <<"\n">> ELSE <<>>)
                                \o WriteLines(lines)],
             wrote |-> TRUE]

\* `entry in content` for the words a .gitignore is made of here
MentionsEntry(content, entry) ==
    \E i \in 1..Len(content) :
        \/ content[i] = entry
        \/ content[i] = ".envrc" /\ entry = ".env"

\* _update_gitignore, lines 414-425
update_gitignore(file, entry) ==
    LET content == IF file.exists THEN file.text ELSE <<>>
    IN IF MentionsEntry(content, entry) THEN file
       ELSE [exists |-> TRUE,
             text |-> content
                      \o (IF content # <<>> /\ ~endswith(content, "\n")
                          THEN <<"\n">> ELSE <<>>)
                      \o <<"\n", "#", " ", "Local Secrets", "\n", entry, "\n">>]


\* ================================================== setup.py: mcp.json
\* a JSON value: its type and, for an object, its members as a dict
Json(type, members) == [type |-> type, members |-> members]
JsonNull == Json("null", <<>>)

\* texts typed at a prompt
TypedInputs == {<<>>, <<" ">>, <<"Personal">>, <<" ", "Personal", " ">>}

\* values of an environment variable (<<>>: not set, or set to "")
EnvValues == {<<>>, <<"Work">>}

\* line 205: self.collected_secrets.get("ROO_CODE_PROFILE_NAME", "default")
EntryProfile(env, secrets) ==
    DictGet(secrets, "ROO_CODE_PROFILE_NAME", <<"default">>)

\* configure_servers, lines 183-210 (os.name is not 'nt')
GeneratedServers(gh_token, ado_scope, ado_token, profile) ==
    << <<"github",
         [command |-> "npx",
          args |-> << <<"-y">>, <<"@modelcontextprotocol/server-github">> >>,
          env |-> << <<"GITHUB_PERSONAL_ACCESS_TOKEN", gh_token>> >>,
          disabled |-> FALSE, autoApprove |-> <<>>]>>,
       <<"azure-devops",
         [command |-> "npx",
          args |-> << <<"-y">>, <<"@azure-devops/mcp@1.0.0">>, ado_scope >>,
          env |-> << <<"AZURE_DEVOPS_EXT_PAT", ado_token>> >>,
          disabled |-> FALSE, autoApprove |-> <<>>]>>,
       <<"burndown-manager",
         [command |-> ".roo/venv/bin/python",
          args |-> << <<".roo/burndown_server.py">> >>,
          env |-> << <<"AZURE_DEVOPS_SCOPE", ado_scope>>,
                     <<"AZURE_DEVOPS_EXT_PAT", ado_token>>,
                     <<"AZURE_DEVOPS_ORG_URL", ado_scope>>,
                     <<"ROO_CODE_PROFILE_NAME", profile>> >>,
          disabled |-> FALSE, autoApprove |-> <<>>]>> >>

\* an entry some earlier tool or hand wrote
OldConfig(n) ==
    [command |-> "node", args |-> << <<n>> >>, env |-> <<>>,
     disabled |-> TRUE, autoApprove |-> <<>>]

OldNames == {"custom", "github", "burndown-manager"}

\* mcpServers objects of an existing file
OldServers ==
    {[i \in 1..Len(ns) |-> <<ns[i], OldConfig(ns[i])>>] :
        ns \in {x \in SeqsUpTo(OldNames, MaxServers) :
                   \A i, j \in 1..Len(x) : x[i] = x[j] => i = j}}

InputsMember == <<"inputs", Json("array", <<>>)>>

\* documents of an existing, well-formed mcp.json: an array, or an object
\* with or without the keys inputs and mcpServers (an object or null)
McpRoots ==
    {Json("array", <<>>), Json("object", <<>>), Json("object", <<InputsMember>>)}
    \cup UNION {{Json("object", << <<"mcpServers", v>> >>),
                 Json("object", <<InputsMember, <<"mcpServers", v>> >>),
                 Json("object", << <<"mcpServers", v>>, InputsMember>>)} :
                    v \in {JsonNull} \cup {Json("object", d) : d \in OldServers}}

McpFiles ==
    {[exists |-> FALSE, valid |-> FALSE, root |-> JsonNull],
     [exists |-> TRUE, valid |-> FALSE, root |-> JsonNull]}
    \cup {[exists |-> TRUE, valid |-> TRUE, root |-> r] : r \in McpRoots}

\* lines 361-365: `existing` after the try; it stays unbound when json.load
\* raises JSONDecodeError, which the handler only reports
ExistingConfig(file) ==
    IF file.valid THEN [bound |-> TRUE, value |-> file.root]
    ELSE [bound |-> FALSE, value |-> JsonNull]

\* line 368: existing["mcpServers"].update(self.config_data["mcpServers"])
MergeServers(servers, generated) == DictUpdate(servers, generated)

\* save_configuration, lines 360-374, on mcp.json: the exception raised
\* ("none" if none) and the file afterwards
save_mcp_json(file, generated) ==
    IF ~file.exists
    THEN [fault |-> "none",
          file |-> [exists |-> TRUE, valid |-> TRUE,
                    root |-> Json("object",
                        << <<"mcpServers", Json("object", generated)>> >>)]]
    ELSE LET existing == ExistingConfig(file) IN
         IF ~existing.bound
         THEN [fault |-> "UnboundLocalError", file |-> file]
         ELSE IF existing.value.type # "object"
         THEN \* line 367 on a list: existing["mcpServers"] = {}
              [fault |-> "TypeError", file |-> file]
         ELSE LET withKey ==
                      IF "mcpServers" \in DictKeys(existing.value.members)
                      THEN existing.value.members
                      ELSE Append(existing.value.members,
                                  <<"mcpServers", Json("object", <<>>)>>)
                  servers == DictGet(withKey, "mcpServers", JsonNull)
              IN IF servers.type # "object"
                 THEN [fault |-> "AttributeError", file |-> file]
                 ELSE [fault |-> "none",
                       file |-> [exists |-> TRUE, valid |-> TRUE,
                                 root |-> Json("object",
                                     DictSet(withKey, "mcpServers",
                                         Json("object",
                                              MergeServers(servers.members,
                                                           generated))))]]


\* ============================================ setup.py: BurndownSetup.run
\* the run ends with an exception or sys.exit
Abort(cls) == step' = "aborted" /\ fault' = cls

Say(msg) == console' = Append(console, msg)

\* __init__, lines 56-57
Construct ==
    /\ step = "init"
    /\ collected_secrets' = <<>>
    /\ os_environ' = load_env_file(env_file, os_environ)
    /\ step' = "profile"
    /\ UNCHANGED <<server_state, cli_state, config_data, files, fault, console>>

\* configure_profile, lines 100-110: self.collected_secrets afterwards
configure_profile(env, secrets, typed) ==
    IF env["ROO_CODE_PROFILE_NAME"] # <<>> THEN secrets
    ELSE DictSet(secrets, "ROO_CODE_PROFILE_NAME",
                 IF strip(typed) = <<>> THEN <<"default">> ELSE strip(typed))

ConfigureProfile ==
    /\ step = "profile"
    /\ \E typed \in TypedInputs :
           collected_secrets' = configure_profile(os_environ,
                                                  collected_secrets, typed)
    /\ step' = "install"
    /\ UNCHANGED <<server_state, cli_state, os_environ, config_data, files,
                   fault, console>>

\* install_agent_script, lines 113-160: it ends the process when the venv
\* or the dependencies cannot be installed
InstallAgentScript ==
    /\ step = "install"
    /\ \E installed \in BOOLEAN :
           IF installed THEN step' = "servers" /\ UNCHANGED fault
           ELSE Abort("SystemExit")
    /\ UNCHANGED <<server_state, cli_state, os_environ, collected_secrets,
                   config_data, files, console>>

\* get_user_input, lines 81-91 (ok = FALSE: ValueError for an empty input)
get_user_input(env, secrets, env_var, typed) ==
    IF env[env_var] # <<>>
    THEN [ok |-> TRUE, value |-> env[env_var],
          secrets |-> DictSet(secrets, env_var, env[env_var])]
    ELSE IF strip(typed) = <<>>
    THEN [ok |-> FALSE, value |-> <<>>, secrets |-> secrets]
    ELSE [ok |-> TRUE, value |-> strip(typed),
          secrets |-> DictSet(secrets, env_var, strip(typed))]

\* configure_servers, lines 163-210
ConfigureServers ==
    /\ step = "servers"
    /\ \E t1, t2, t3 \in TypedInputs :
        LET gh == get_user_input(os_environ, collected_secrets,
                                 "GITHUB_PERSONAL_ACCESS_TOKEN", t1)
            scope == get_user_input(os_environ, gh.secrets,
                                    "AZURE_DEVOPS_SCOPE", t2)
            pat == get_user_input(os_environ, scope.secrets,
                                  "AZURE_DEVOPS_EXT_PAT", t3)
        IN IF ~gh.ok
           THEN /\ Abort("ValueError")
                /\ UNCHANGED <<collected_secrets, config_data>>
           ELSE IF ~scope.ok
           THEN /\ Abort("ValueError")
                /\ collected_secrets' = gh.secrets
                /\ UNCHANGED config_data
           ELSE IF ~pat.ok
           THEN /\ Abort("ValueError")
                /\ collected_secrets' = scope.secrets
                /\ UNCHANGED config_data
           ELSE /\ collected_secrets' = pat.secrets
                /\ config_data' =
                       GeneratedServers(gh.value, scope.value, pat.value,
                           EntryProfile(os_environ, pat.secrets))
                /\ step' = "save"
                /\ UNCHANGED fault
    /\ UNCHANGED <<server_state, cli_state, os_environ, files, console>>

\* save_configuration, lines 352-377
SaveConfiguration ==
    /\ step = "save"
    /\ LET r == save_mcp_json(mcp_json, config_data)
           warned == IF mcp_json.exists /\ ~mcp_json.valid
                     THEN <<"invalid_json_warning">> ELSE <<>>
       IN
       /\ mcp_json' = r.file
       /\ IF r.fault # "none"
          THEN /\ Abort(r.fault)
               /\ console' = console \o warned
               /\ UNCHANGED <<env_file, gitignore>>
          ELSE LET roo == update_gitignore(gitignore, ".roo/")
                   saved == save_secrets_to_env(env_file, collected_secrets)
               IN /\ env_file' = saved.file
                  /\ gitignore' = IF saved.wrote
                                  THEN update_gitignore(roo, ".env") ELSE roo
                  /\ console' = console \o warned
                         \o <<IF mcp_json.exists THEN "updated_config"
                              ELSE "created_config">>
                  /\ step' = "inject"
                  /\ UNCHANGED fault
    /\ UNCHANGED <<server_state, cli_state, os_environ, collected_secrets,
                   config_data, devcontainer>>


\* ========================================== setup.py: devcontainer.json
ROO_EXTENSION_ID == "rooveterinaryinc.roo-cline"

\* a mount is the sequence of its comma-separated options
\* lines 251-252
mount_str ==
    <<"source=vscode-server-data", "target=/home/vscode/.vscode-server/data",
      "type=volume">>

\* mounts of an existing file: a bind mount, the persistence volume under
\* another target, and the persistence mount with its options reordered
UserMounts ==
    {<<"source=${localWorkspaceFolder}", "target=/workspace", "type=bind">>,
     <<"source=vscode-server-data", "target=/cache", "type=volume">>,
     <<"type=volume", "target=/home/vscode/.vscode-server/data",
       "source=vscode-server-data">>,
     mount_str}

\* lines 254-257
mount_exists(mounts) ==
    \E i \in 1..Len(mounts) :
        /\ "source=vscode-server-data" \in Range(mounts[i])
        /\ "target=/home/vscode/.vscode-server/data" \in Range(mounts[i])

\* a command is the sequence of its steps, the texts between && (a blank
\* command is one blank step); lines 296-300
install_cmd(is_alpine) ==
    IF is_alpine THEN <<"apk add --no-cache python3 py3-pip py3-virtualenv">>
    ELSE <<"apt-get update",
           "apt-get install -y python3 python3-pip python3-venv">>

pip_cmd(is_alpine) ==
    IF is_alpine
    THEN <<"rm -rf .roo/venv", "virtualenv .roo/venv",
           ".roo/venv/bin/pip install -r .roo/requirements.txt">>
    ELSE <<"rm -rf .roo/venv", "python3 -m venv .roo/venv",
           ".roo/venv/bin/pip install -r .roo/requirements.txt">>

\* steps of an existing postCreateCommand
UserSteps ==
    {"npm install", "pip install -r requirements.txt",
     "apt-get install -y python3", "python3 -m venv .venv"}

\* lines 307-315: the steps that python_install_patterns match
PythonInstallSteps ==
    {"apt-get install -y python3", "python3 -m venv .venv",
     "apt-get install -y python3 python3-pip python3-venv",
     "apk add --no-cache python3 py3-pip py3-virtualenv",
     "python3 -m venv .roo/venv"}

\* the steps that hold the text requirements.txt
RequirementsSteps ==
    {"pip install -r requirements.txt",
     ".roo/venv/bin/pip install -r .roo/requirements.txt"}

\* lines 316-322
has_python_install(cmd) == \E i \in 1..Len(cmd) : cmd[i] \in PythonInstallSteps

\* line 327: "requirements.txt" in current_cmd
mentions_requirements(cmd) ==
    \E i \in 1..Len(cmd) : cmd[i] \in RequirementsSteps

\* current_cmd.strip() is empty
IsBlank(cmd) == \A i \in 1..Len(cmd) : cmd[i] = " "

\* lines 302-336: the commands list, as the number of its entries and the
\* steps of its && join
post_create_commands(current_cmd, is_alpine) ==
    LET install == ~has_python_install(current_cmd)
        pip == ~mentions_requirements(current_cmd)
        keep == current_cmd # <<>> /\ ~IsBlank(current_cmd)
    IN [count |-> (IF install THEN 1 ELSE 0) + (IF pip THEN 1 ELSE 0)
                      + (IF keep THEN 1 ELSE 0),
        joined |-> (IF install THEN install_cmd(is_alpine) ELSE <<>>)
                       \o (IF pip THEN pip_cmd(is_alpine) ELSE <<>>)
                       \o (IF keep THEN current_cmd ELSE <<>>)]

\* lines 247-261: data["mounts"] afterwards.  data.get("mounts", []) hands
\* out a list of its own when the key is absent, and only a value that is
\* no list is replaced in data
mounts_after(mounts) ==
    IF mounts.kind = "absent" THEN mounts
    ELSE IF mounts.kind = "list" /\ mount_exists(mounts.list) THEN mounts
    ELSE [kind |-> "list",
          list |-> Append(IF mounts.kind = "list" THEN mounts.list ELSE <<>>,
                          mount_str)]

\* lines 258-261: whether the mount step sets modified
mount_modified(mounts) ==
    ~(mounts.kind = "list" /\ mount_exists(mounts.list))


\* customizations.vscode.extensions of an existing file (present: the key
\* path exists)
ExtensionLists ==
    {[present |-> FALSE, list |-> <<>>], [present |-> TRUE, list |-> <<>>],
     [present |-> TRUE, list |-> <<"ms-python.python">>],
     [present |-> TRUE, list |-> <<ROO_EXTENSION_ID>>],
     [present |-> TRUE, list |-> <<"ms-python.python", ROO_EXTENSION_ID>>]}

\* mounts of an existing file: no key, a list, or a value that is no list
MountValues ==
    {[kind |-> "absent", list |-> <<>>], [kind |-> "other", list |-> <<>>]}
    \cup {[kind |-> "list", list |-> l] : l \in SeqsUpTo(UserMounts, MaxMounts)}

\* postCreateCommand of an existing file: no key, a string (empty, blank or
\* steps), or the array form
CommandValues ==
    {[kind |-> "absent", steps |-> <<>>], [kind |-> "array", steps |-> <<>>],
     [kind |-> "string", steps |-> <<" ">>]}
    \cup {[kind |-> "string", steps |-> c] : c \in SeqsUpTo(UserSteps, MaxSteps)}

\* lines 264-293: where the word alpine occurs: nowhere, only in a comment
\* of the file, or in its data or a file it references
AlpineMentions == {"none", "comment", "kept"}

\* lines 229-234 and 343: json.dump writes the data without the comments
alpine_after(alpine) == IF alpine = "comment" THEN "none" ELSE alpine

DevcontainerData ==
    [extensions : ExtensionLists, mounts : MountValues,
     postCreateCommand : CommandValues, alpine : AlpineMentions]

NoData ==
    [extensions |-> [present |-> FALSE, list |-> <<>>],
     mounts |-> [kind |-> "absent", list |-> <<>>],
     postCreateCommand |-> [kind |-> "absent", steps |-> <<>>],
     alpine |-> "none"]

DevcontainerFiles ==
    {[exists |-> FALSE, valid |-> FALSE, data |-> NoData],
     [exists |-> TRUE, valid |-> FALSE, data |-> NoData]}
    \cup {[exists |-> TRUE, valid |-> TRUE, data |-> d] : d \in DevcontainerData}

\* inject_devcontainer_config, lines 213-350, on the file: the file
\* afterwards and the closing message
inject_devcontainer_config(file) ==
    IF ~file.exists THEN [file |-> file, message |-> "skipped"]
    ELSE IF ~file.valid \/ file.data.postCreateCommand.kind = "array"
    THEN \* json.loads, or re.split on a list, raises: line 350
         [file |-> file, message |-> "failed"]
    ELSE LET data == file.data
             add_ext == ROO_EXTENSION_ID \notin Range(data.extensions.list)
             current_cmd == data.postCreateCommand.steps
             commands == post_create_commands(current_cmd,
                                              data.alpine # "none")
             new_cmd == commands.count > (IF current_cmd # <<>> THEN 1 ELSE 0)
             modified == add_ext \/ mount_modified(data.mounts) \/ new_cmd
         IN IF ~modified THEN [file |-> file, message |-> "up_to_date"]
            ELSE [file |->
                    [exists |-> TRUE, valid |-> TRUE,
                     data |->
                       [extensions |->
                            [present |-> TRUE,
                             list |-> IF add_ext
                                      THEN Append(data.extensions.list,
                                                  ROO_EXTENSION_ID)
                                      ELSE data.extensions.list],
                        mounts |-> mounts_after(data.mounts),
                        postCreateCommand |->
                            IF new_cmd
                            THEN [kind |-> "string", steps |-> commands.joined]
                            ELSE data.postCreateCommand,
                        alpine |-> alpine_after(data.alpine)]],
                  message |-> "updated"]

\* run, line 433: inject_devcontainer_config, then the closing messages
InjectDevcontainerConfig ==
    /\ step = "inject"
    /\ devcontainer' = inject_devcontainer_config(devcontainer).file
    /\ Say(inject_devcontainer_config(devcontainer).message)
    /\ step' = "complete"
    /\ UNCHANGED <<server_state, cli_state, os_environ, collected_secrets,
                   config_data, mcp_json, env_file, gitignore, fault>>

\* files of the project setup.py is run in
SetupEnvFiles ==
    {AbsentFile,
     [exists |-> TRUE, text |-> <<>>],
     [exists |-> TRUE, text |-> <<"ROO_CODE_PROFILE_NAME", "=", "Saved", "\n">>],
     [exists |-> TRUE,
      text |-> <<"GITHUB_PERSONAL_ACCESS_TOKEN", "=", "'", "ghp", "'">>]}

SetupGitignores ==
    {AbsentFile, [exists |-> TRUE, text |-> <<".envrc">>]}

\* python setup.py in a project, under each environment
InitSetup ==
    /\ ADO_ORG_URL = NoUrl
    /\ ADO_PAT = FALSE
    /\ project_name = extract_project_name(ADO_ORG_URL)
    /\ api_conforms = TRUE
    /\ backlog_min = 0
    /\ InitCall
    /\ step = "init"
    /\ os_environ \in [EnvNames -> EnvValues]
    /\ collected_secrets = <<>>
    /\ config_data = <<>>
    /\ mcp_json \in McpFiles
    /\ env_file \in SetupEnvFiles
    /\ gitignore \in SetupGitignores
    /\ devcontainer \in {[exists |-> FALSE, valid |-> FALSE, data |-> NoData],
                         [exists |-> TRUE, valid |-> TRUE, data |-> NoData]}
    /\ fault = "none"
    /\ console = <<>>
    /\ name = <<>>
    /\ sanitized_title = <<>>

NextSetup ==
    \/ Construct
    \/ ConfigureProfile
    \/ InstallAgentScript
    \/ ConfigureServers
    \/ SaveConfiguration
    \/ InjectDevcontainerConfig

SpecSetup == InitSetup /\ [][NextSetup]_vars


\* ================================= setup.py: _save_secrets_to_env, twice
\* lines of an existing .env, for the keys of two secrets
EnvLines ==
    {<<"GITHUB_PERSONAL_ACCESS_TOKEN", "=", "old">>,
     <<" ", "GITHUB_PERSONAL_ACCESS_TOKEN", " ", "=", "old">>,
     <<"#", "GITHUB_PERSONAL_ACCESS_TOKEN", "=", "old">>,
     <<"export", " ", "GITHUB_PERSONAL_ACCESS_TOKEN", "=", "old">>,
     <<"GITHUB_PERSONAL_ACCESS_TOKEN">>,
     <<"AZURE_DEVOPS_SCOPE", "=", "old">>,
     <<"=", "old">>,
     <<>>}

\* the lines joined by newlines, with or without a closing newline
RECURSIVE JoinLines(_, _)
JoinLines(lines, closed) ==
    IF lines = <<>> THEN <<>>
    ELSE IF Len(lines) = 1
    THEN Head(lines) \o (IF closed THEN <<"\n">> ELSE <<>>)
    ELSE Head(lines) \o <<"\n">> \o JoinLines(Tail(lines), closed)

EnvFiles ==
    {AbsentFile}
    \cup {[exists |-> TRUE, text |-> JoinLines(ls, closed)] :
              ls \in SeqsUpTo(EnvLines, MaxEnvLines), closed \in BOOLEAN}

\* self.collected_secrets after the prompts: some of two secrets, in either
\* order
SecretDicts ==
    {<<>>,
     << <<"GITHUB_PERSONAL_ACCESS_TOKEN", <<"new">>>> >>,
     << <<"AZURE_DEVOPS_SCOPE", <<"new">>>> >>,
     << <<"GITHUB_PERSONAL_ACCESS_TOKEN", <<"new">>>>,
        <<"AZURE_DEVOPS_SCOPE", <<"new">>>> >>,
     << <<"AZURE_DEVOPS_SCOPE", <<"new">>>>,
        <<"GITHUB_PERSONAL_ACCESS_TOKEN", <<"new">>>> >>}

InitEnv ==
    /\ ADO_ORG_URL = NoUrl
    /\ ADO_PAT = FALSE
    /\ project_name = extract_project_name(ADO_ORG_URL)
    /\ api_conforms = TRUE
    /\ backlog_min = 0
    /\ InitCall
    /\ step = "secrets1"
    /\ os_environ = [n \in EnvNames |-> <<>>]
    /\ collected_secrets \in SecretDicts
    /\ config_data = <<>>
    /\ mcp_json = [exists |-> FALSE, valid |-> FALSE, root |-> JsonNull]
    /\ env_file \in EnvFiles
    /\ gitignore = AbsentFile
    /\ devcontainer = [exists |-> FALSE, valid |-> FALSE, data |-> NoData]
    /\ fault = "none"
    /\ console = <<>>
    /\ name = <<>>
    /\ sanitized_title = <<>>

\* _save_secrets_to_env(), lines 379-412, called a first and a second time
SaveSecretsToEnv ==
    /\ step \in {"secrets1", "secrets2"}
    /\ LET saved == save_secrets_to_env(env_file, collected_secrets) IN
        /\ env_file' = saved.file
        /\ gitignore' = IF saved.wrote THEN update_gitignore(gitignore, ".env")
                        ELSE gitignore
        /\ console' = IF saved.wrote THEN Append(console, "saved_secrets")
                      ELSE console
    /\ step' = IF step = "secrets1" THEN "secrets2" ELSE "secrets_done"
    /\ UNCHANGED <<server_state, cli_state, os_environ, collected_secrets,
                   config_data, mcp_json, devcontainer, fault>>

NextEnv == SaveSecretsToEnv

SpecEnv == InitEnv /\ [][NextEnv]_vars


\* ============================ setup.py: inject_devcontainer_config, twice
InitDevcontainer ==
    /\ ADO_ORG_URL = NoUrl
    /\ ADO_PAT = FALSE
    /\ project_name = extract_project_name(ADO_ORG_URL)
    /\ api_conforms = TRUE
    /\ backlog_min = 0
    /\ InitCall
    /\ step = "inject1"
    /\ os_environ = [n \in EnvNames |-> <<>>]
    /\ collected_secrets = <<>>
    /\ config_data = <<>>
    /\ mcp_json = [exists |-> FALSE, valid |-> FALSE, root |-> JsonNull]
    /\ env_file = AbsentFile
    /\ gitignore = AbsentFile
    /\ devcontainer \in DevcontainerFiles
    /\ fault = "none"
    /\ console = <<>>
    /\ name = <<>>
    /\ sanitized_title = <<>>

\* inject_devcontainer_config(), lines 213-350, run on the file and then on
\* the file it left
InjectAgain ==
    /\ step \in {"inject1", "inject2"}
    /\ devcontainer' = inject_devcontainer_config(devcontainer).file
    /\ Say(inject_devcontainer_config(devcontainer).message)
    /\ step' = IF step = "inject1" THEN "inject2" ELSE "injected"
    /\ UNCHANGED <<server_state, cli_state, os_environ, collected_secrets,
                   config_data, mcp_json, env_file, gitignore, fault>>

NextDevcontainer == InjectAgain

SpecDevcontainer == InitDevcontainer /\ [][NextDevcontainer]_vars


\* ============================================ cli.py: sanitize_branch_name
\* a string is the sequence of its characters
\* line 42: the length a branch name is cut to
max_branch_len == 50

\* characters of work item titles: letters of both cases, a digit, the
\* characters that are kept, a space and a character that is removed
TitleChars == {"a", "B", "7", "-", "_", "/", " ", "!"}

\* line 33: a-z0-9\-_/
BranchChars == {"a", "b", "7", "-", "_", "/"}

\* line 30: str.lower
lower(s) == [i \in 1..Len(s) |-> IF s[i] = "B" THEN "b" ELSE s[i]]

\* line 30: replace(' ', '-')
replace_spaces(s) == [i \in 1..Len(s) |-> IF s[i] = " " THEN "-" ELSE s[i]]

\* line 33: re.sub(r'[^a-z0-9\-_/]', '', name)
remove_invalid(s) == SelectSeq(s, LAMBDA c : c \in BranchChars)

\* line 36: re.sub(r'-+', '-', name)
RECURSIVE collapse_hyphens(_)
collapse_hyphens(s) ==
    IF Len(s) < 2 THEN s
    ELSE IF s[1] = "-" /\ s[2] = "-" THEN collapse_hyphens(Tail(s))
    ELSE <<Head(s)>> \o collapse_hyphens(Tail(s))

\* str.rstrip('-')
RECURSIVE rstrip_hyphens(_)
rstrip_hyphens(s) ==
    IF s # <<>> /\ s[Len(s)] = "-"
    THEN rstrip_hyphens(SubSeq(s, 1, Len(s) - 1))
    ELSE s

\* variant: the cut name is returned as it is
truncate_plain(s) ==
    IF Len(s) > max_branch_len THEN SubSeq(s, 1, max_branch_len) ELSE s

\* lines 42-43
truncate(s) ==
    IF Len(s) > max_branch_len
    THEN rstrip_hyphens(SubSeq(s, 1, max_branch_len))
    ELSE s

\* sanitize_branch_name, lines 19-45
sanitize_branch_name(title) ==
    LET cut == truncate(strip_char(collapse_hyphens(remove_invalid(
                   replace_spaces(lower(title)))), "-"))
    IN IF cut = <<>> THEN <<"f", "e", "a", "t", "u", "r", "e">> ELSE cut

\* a run of n letters
Letters(n) == [i \in 1..n |-> "a"]

\* titles: short ones, and ones whose letters reach the cut
Titles ==
    SeqsUpTo(TitleChars, MaxNameLen)
    \cup {head \o Letters(n) \o tail :
              head \in {<<>>, <<"-">>, <<"!", " ">>},
              n \in (max_branch_len - 3)..max_branch_len,
              tail \in SeqsUpTo(TitleChars, MaxNameLen)}

InitSanitize ==
    /\ ADO_ORG_URL = NoUrl
    /\ ADO_PAT = FALSE
    /\ project_name = extract_project_name(ADO_ORG_URL)
    /\ api_conforms = TRUE
    /\ backlog_min = 0
    /\ InitCall
    /\ step = "cli"
    /\ os_environ = [n \in EnvNames |-> <<>>]
    /\ collected_secrets = <<>>
    /\ config_data = <<>>
    /\ mcp_json = [exists |-> FALSE, valid |-> FALSE, root |-> JsonNull]
    /\ env_file = AbsentFile
    /\ gitignore = AbsentFile
    /\ devcontainer = [exists |-> FALSE, valid |-> FALSE, data |-> NoData]
    /\ fault = "none"
    /\ console = <<>>
    /\ name \in Titles
    /\ sanitized_title = <<>>

\* create_pr, line 143: sanitized_title = sanitize_branch_name(title)
SanitizeBranchName ==
    /\ step = "cli"
    /\ sanitized_title' = sanitize_branch_name(name)
    /\ step' = "sanitized"
    /\ UNCHANGED <<server_state, os_environ, collected_secrets, config_data,
                   files, fault, console, name>>

NextSanitize == SanitizeBranchName

SpecSanitize == InitSanitize /\ [][NextSanitize]_vars

\* ================================================================ claims
Returned == pc = "done" /\ outcome \in {"Report", "BacklogClear"}

Distinct(s) == \A i, j \in 1..Len(s) : s[i] = s[j] => i = j

\* C1: for every limit > 0, in both modes and whatever the service answers,
\* the report lists at most limit work items (and its header says so).
C1_AtMostLimit ==
    limit > 0 => Len(report) <= limit /\ report_count <= limit

\* the service returned more items than limit and the report was cut
C1_Witness ==
    /\ pc = "done" /\ outcome = "Report"
    /\ Len(tasks) > limit
    /\ Len(report) = limit

\* C2: in both modes the ids of the reported items are pairwise distinct,
\* also when a query or a hydration body repeats an id.
C2_DistinctIds == Distinct(report)

\* C3: in direct mode the reported ids are among the first limit references
\* of the open-item query and keep that query's relative order.
C3_DirectOrder ==
    (outcome = "Report" /\ ~prioritize_parents)
        => report \in SubSeqs(Take(parents, limit))

\* direct mode cut the query to limit and reported more than one item
C3_Witness ==
    /\ pc = "done" /\ outcome = "Report" /\ ~prioritize_parents
    /\ Len(parents) > limit
    /\ report = Take(parents, limit)
    /\ Len(report) >= 2

\* C4: in parent-aware mode a candidate that has an open child according to
\* the child query never has its own id in the report.
C4_NoParentWithChildren ==
    (outcome = "Report" /\ prioritize_parents)
        => \A i \in 1..Len(parent_ids) :
               child_id_map[parent_ids[i]] # <<>>
                   => parent_ids[i] \notin Range(report)

\* C5: in parent-aware mode every childless candidate that the loop visited
\* before limit was reached, and whose hydration returned it, is in the
\* result.
C5_ChildlessIncluded ==
    (Returned /\ prioritize_parents)
        => \A i \in 1..Len(visits) :
               (visits[i].childless /\ visits[i].resolved)
                   => visits[i].pid \in Range(report)

\* a childless candidate was reported next to the children of another one
C5_Witness ==
    /\ pc = "done" /\ outcome = "Report" /\ prioritize_parents
    /\ \E i, j \in 1..Len(visits) :
        /\ visits[i].childless /\ visits[i].resolved
        /\ visits[i].pid \in Range(report)
        /\ ~visits[j].childless

\* the open children of p listed by the child query, in its order
ChildrenOf(rows, p) ==
    LET of_p == SelectSeq(rows, LAMBDA c : c.parent = p)
    IN [i \in 1..Len(of_p) |-> of_p[i].id]

\* each candidate replaced by its open children, or kept when it has none
RECURSIVE Walk(_, _)
Walk(cands, rows) ==
    IF cands = <<>> THEN <<>>
    ELSE (IF ChildrenOf(rows, Head(cands)) # <<>>
          THEN ChildrenOf(rows, Head(cands)) ELSE <<Head(cands)>>)
         \o Walk(Tail(cands), rows)

\* the first n distinct elements of s
RECURSIVE FirstDistinct(_, _, _)
FirstDistinct(s, n, acc) ==
    IF s = <<>> \/ Len(acc) >= n THEN acc
    ELSE IF Head(s) \in Range(acc) THEN FirstDistinct(Tail(s), n, acc)
    ELSE FirstDistinct(Tail(s), n, Append(acc, Head(s)))

AllSucceeded == \A i \in 1..Len(http_log) : http_log[i].complete

ExampleRun ==
    /\ prioritize_parents /\ limit = 2
    /\ parents = <<1, 2, 3>>
    /\ children = <<[id |-> 4, parent |-> 2], [id |-> 5, parent |-> 2]>>

\* C6: in parent-aware mode with every request succeeding, the result is
\* the first limit distinct ids of the walk over the capped candidates;
\* candidates [P1, P2 (children C1, C2), P3] with limit 2 give [P1, C1].
C6_WalkResult ==
    (Returned /\ prioritize_parents /\ AllSucceeded)
        => /\ report = FirstDistinct(
                           Walk(Take(parents, parent_factor * limit), children),
                           limit, <<>>)
           /\ ExampleRun => report = <<1, 4>>

\* the example of the claim has run to its end
C6_Witness ==
    /\ Returned /\ AllSucceeded /\ ExampleRun
    /\ Len(http_log) = 4
    /\ report = <<1, 4>>

\* C7: a call with limit <= 0 ends in ValueError before any HTTP request,
\* in both modes and whatever the configuration.
C7_InvalidLimit ==
    (pc # "call" /\ limit <= 0)
        => pc = "done" /\ outcome = "ValueError" /\ http_log = <<>>

\* limit 0 in direct mode, with no project scope either
C7_Witness ==
    /\ pc = "done" /\ limit = 0 /\ ~prioritize_parents
    /\ project_name = None
    /\ outcome = "ValueError"

NonEmptySegments(url) ==
    Cardinality({i \in 1..Len(url.path) : url.path[i] # ""})

\* missing URL, unknown host, or too few path segments
ScopeUnderivable ==
    \/ ADO_ORG_URL = NoUrl
    \/ ADO_ORG_URL.host \notin {"dev.azure.com", "contoso.visualstudio.com"}
    \/ ADO_ORG_URL.host = "dev.azure.com" /\ NonEmptySegments(ADO_ORG_URL) < 2
    \/ /\ ADO_ORG_URL.host = "contoso.visualstudio.com"
       /\ NonEmptySegments(ADO_ORG_URL) < 1

\* C8: when the project scope cannot be derived from the organization URL,
\* a call with limit > 0 returns the configuration-error message, raises
\* nothing and issues no request.
C8_ConfigError ==
    (pc # "call" /\ limit > 0 /\ ScopeUnderivable)
        => pc = "done" /\ outcome = "ConfigError" /\ http_log = <<>>

\* a dev.azure.com URL that stops after the organization, token configured
C8_Witness ==
    /\ pc = "done" /\ limit > 0 /\ outcome = "ConfigError"
    /\ ADO_PAT
    /\ ADO_ORG_URL.host = "dev.azure.com"
    /\ NonEmptySegments(ADO_ORG_URL) = 1

OpenQueryStatus == IF http_log = <<>> THEN "none" ELSE http_log[1].status

\* C9: when the open-item query succeeds with no work items, either mode
\* ends in the backlog-clear message, nothing is raised and nothing is
\* hydrated.
C9_EmptyBacklog ==
    (OpenQueryStatus = "ok" /\ parents = <<>>)
        => /\ Len(http_log) = 1
           /\ outcome \in {"none", "BacklogClear"}
           /\ pc = "done" => outcome = "BacklogClear"

\* direct mode answered an empty query with the backlog-clear message
C9_Witness ==
    /\ pc = "done" /\ outcome = "BacklogClear" /\ ~prioritize_parents
    /\ OpenQueryStatus = "ok" /\ parents = <<>>

\* C10: a failed open-item query (client exception or non-200), in either
\* mode, is taken as an empty list: the call ends in backlog-clear.
C10_QueryFailureAbsorbed ==
    (pc = "done" /\ OpenQueryStatus \in {"err", "exc"})
        => outcome = "BacklogClear"

ChildQueryStatus ==
    IF Len(http_log) < 2 THEN "none" ELSE http_log[2].status

HydrationsComplete ==
    \A i \in 1..Len(http_log) :
        http_log[i].kind = "workitems" => http_log[i].complete

\* C11: in parent-aware mode, when the child query fails (client exception
\* or non-200) after the open-item query succeeded, every candidate is
\* taken as childless: the result holds candidates only, in priority order,
\* and with every hydration succeeding it is the first limit candidates.
C11_ChildQueryFailure ==
    (prioritize_parents /\ OpenQueryStatus = "ok"
        /\ ChildQueryStatus \in {"err", "exc"})
        => /\ \A i \in 1..Len(visits) : visits[i].childless
           /\ \A i \in 1..Len(http_log) :
                  http_log[i].kind = "workitems"
                      => \E k \in 1..Len(parent_ids) :
                             http_log[i].ids = <<parent_ids[k]>>
           /\ Returned =>
               /\ report \in SubSeqs(parent_ids)
               /\ HydrationsComplete
                      => report = FirstDistinct(parent_ids, limit, <<>>)

\* a non-200 child query, then two candidates reported in their order
C11_Witness ==
    /\ pc = "done" /\ outcome = "Report" /\ prioritize_parents
    /\ ChildQueryStatus = "err"
    /\ Len(parent_ids) > limit
    /\ report = Take(parent_ids, limit)
    /\ Len(report) = 2

RECURSIVE Concat(_)
Concat(ss) == IF ss = <<>> THEN <<>> ELSE Head(ss) \o Concat(Tail(ss))

CeilDiv(n, d) == (n + d - 1) \div d

\* the ids of each hydration request issued so far, in order
RequestedChunks == [i \in 1..Len(http_log) |-> http_log[i].ids]

\* C12: get_work_items on n ids issues its requests as consecutive slices
\* of at most 200 ids whose concatenation is a prefix of the input; when it
\* returns it has issued exactly ceil(n/200) requests that concatenate to
\* the whole input (250 ids: 200 then 50; no ids: no request), and the
\* returned list is the concatenation of the response lists in chunk order.
C12_Chunking ==
    /\ \A i \in 1..Len(http_log) :
        /\ http_log[i].kind = "workitems"
        /\ Len(http_log[i].ids) \in 1..200
        /\ http_log[i].ids = SubSeq(hyd_ids, 200 * (i - 1) + 1,
                                    Min(200 * i, Len(hyd_ids)))
    /\ Concat(RequestedChunks) = Take(hyd_ids, Len(Concat(RequestedChunks)))
    /\ pc = "hydrated" =>
        /\ Len(http_log) = CeilDiv(Len(hyd_ids), 200)
        /\ Concat(RequestedChunks) = hyd_ids
        /\ Len(hyd_bodies) = Len(http_log)
        /\ all_items = Concat(hyd_bodies)

\* 250 ids: a request for 200 and one for 50, both answered in full
C12_Witness ==
    /\ pc = "hydrated"
    /\ Len(hyd_ids) = 250
    /\ Len(http_log) = 2
    /\ Len(http_log[1].ids) = 200 /\ Len(http_log[2].ids) = 50
    /\ all_items = hyd_ids

RECURSIVE OkBodies(_, _)
OkBodies(log, bodies) ==
    IF log = <<>> \/ bodies = <<>> THEN <<>>
    ELSE (IF Head(log).status = "ok" THEN Head(bodies) ELSE <<>>)
             \o OkBodies(Tail(log), Tail(bodies))

\* C13: a hydration chunk answered with a non-200 status does not end
\* get_work_items: the call does not raise on it, every later chunk is
\* still requested, and the returned list holds exactly the items of the
\* chunks answered with 200, in chunk order.
C13_FailedChunkSkipped ==
    /\ \A i \in 1..Len(http_log) :
           http_log[i].status = "err"
               => /\ outcome = "Exception" => http_log[Len(http_log)].status = "exc"
                  /\ (i = Len(http_log) /\ 200 * i < Len(hyd_ids))
                         => pc = "hydrate"
    /\ pc = "hydrated" =>
           /\ outcome = "none"
           /\ Len(http_log) = CeilDiv(Len(hyd_ids), 200)
           /\ all_items = OkBodies(http_log, hyd_bodies)

\* three chunks, the second one refused: the items of the first and the
\* third are returned
C13_Witness ==
    /\ pc = "hydrated"
    /\ Len(http_log) = 3
    /\ http_log[1].status = "ok" /\ http_log[2].status = "err"
    /\ http_log[3].status = "ok"
    /\ all_items = http_log[1].ids \o http_log[3].ids

\* C14: a network failure on a hydration chunk is absorbed like a non-200
\* response: the chunk contributes no items and the selection still returns
\* a (partial or empty) result instead of ending with an exception.
C14_NetworkFailureAbsorbed ==
    (\E i \in 1..Len(http_log) :
        http_log[i].kind = "workitems" /\ http_log[i].status = "exc")
        => /\ outcome # "Exception"
           /\ pc = "done" => Returned

RaisedOutcomes == {"ValueError", "Exception"}

\* C15: the only exception a selection call ends with is the one for a
\* limit that is not positive; every other failure (missing token, failed
\* request, unexpected exception) ends with a returned string.
C15_OnlyInvalidArgumentRaised ==
    pc = "done" =>
        /\ outcome \in RaisedOutcomes => (outcome = "ValueError" /\ limit <= 0)
        /\ limit > 0 => outcome \in {"ConfigError", "BacklogClear", "Report"}

\* C16: a non-empty selection is returned as a report whose count header
\* states exactly the number of item lines that follow, between 1 and
\* limit, with one line per selected item in result order; an empty
\* selection is returned as the no-active-items message, never as a header
\* with zero items.
C16_ReportShape ==
    Returned =>
        /\ outcome = "Report" <=> tasks # <<>>
        /\ outcome = "Report" =>
               /\ report_count = Len(report)
               /\ report_count \in 1..limit
               /\ \A i \in 1..Len(report) : report[i] = tasks[i]
               /\ Len(report) = Min(Len(tasks), limit)
        /\ outcome = "BacklogClear" => report = <<>> /\ report_count = 0

\* more items accumulated than limit: the header counts the listed ones
C16_Witness ==
    /\ pc = "done" /\ outcome = "Report"
    /\ Len(tasks) > limit
    /\ report_count = limit /\ Len(report) = limit

\* the first min(available, limit * 3) references of the open-item query
CandidatePrefix == SubSeq(parents, 1, Min(Len(parents), limit * 3))

\* the candidates and the items the child query returned as their children
CandidatesAndChildren ==
    Range(CandidatePrefix)
        \cup {children[i].id : i \in {j \in 1..Len(children) :
                                       children[j].parent \in Range(CandidatePrefix)}}

\* C17: in parent-aware mode the candidates are exactly the first
\* min(available, limit * 3) references of the open-item query: the child
\* query names exactly those ids, and no item outside that prefix and
\* outside those candidates' children is hydrated or returned.
C17_CandidateCap ==
    (prioritize_parents /\ pc \notin {"call", "open_query"}) =>
        /\ parent_ids = CandidatePrefix
        /\ \A i \in 1..Len(http_log) :
            /\ http_log[i].kind = "children"
                   => http_log[i].ids = CandidatePrefix
            /\ http_log[i].kind = "workitems"
                   => Range(http_log[i].ids) \subseteq CandidatesAndChildren
        /\ Range(tasks) \subseteq CandidatesAndChildren
        /\ Range(report) \subseteq CandidatesAndChildren

\* four open items at limit 1: three candidates, the fourth never requested
C17_Witness ==
    /\ pc = "done" /\ outcome = "Report" /\ prioritize_parents
    /\ limit = 1
    /\ Len(parents) = 4 /\ Len(parent_ids) = 3
    /\ \E i \in 1..Len(http_log) :
           http_log[i].kind = "children" /\ Len(http_log[i].ids) = 3
    /\ \A i \in 1..Len(http_log) :
           http_log[i].kind = "workitems" => parents[4] \notin Range(http_log[i].ids)

\* C18: in parent-aware mode, once the accumulated result has reached
\* limit, no step issues a further request and no step appends an item.
C18_StopsAtLimit ==
    [][(prioritize_parents /\ pc # "call" /\ Len(tasks) >= limit)
           => (http_log' = http_log /\ tasks' = tasks)]_vars

\* the call ended with limit reached while candidates were still unvisited
C18_Witness ==
    /\ pc = "done" /\ outcome = "Report" /\ prioritize_parents
    /\ Len(tasks) = limit
    /\ idx <= Len(parent_ids)

\* C19: throughout a parent-aware selection the seen-id set is the set of
\* ids in the result and no id is in the result twice; an item reached both
\* as an open child and as a childless candidate is in the result once, at
\* the place of its first occurrence.
C19_SeenIdsTrackResult ==
    prioritize_parents =>
        /\ seen_ids = Range(tasks)
        /\ Distinct(tasks)
        /\ Distinct(report)

\* item x was appended as the child of an earlier candidate and hydrated
\* again as a childless candidate, with room left in the result
C19_Witness ==
    /\ pc = "done" /\ outcome = "Report" /\ prioritize_parents
    /\ Len(tasks) < limit
    /\ \E i, j \in 1..Len(visits) :
        /\ i < j
        /\ ~visits[i].childless
        /\ visits[j].childless /\ visits[j].resolved
        /\ visits[j].pid \in Range(child_id_map[visits[i].pid])
        /\ visits[j].pid \in Range(tasks)

WiqlKinds == {"open", "children"}

\* C20: every WIQL query issued (the open-item query of either mode and the
\* child query) carries the project filter, for the one project derived
\* from the organisation URL, and excludes the states Closed, Removed,
\* Resolved, Done and Completed.
C20_QueriesScoped ==
    \A i \in 1..Len(http_log) :
        http_log[i].kind \in WiqlKinds =>
            /\ http_log[i].query.team_project # None
            /\ http_log[i].query.team_project = extract_project_name(ADO_ORG_URL)
            /\ http_log[i].query.state_not_in
                   = {"Closed", "Removed", "Resolved", "Done", "Completed"}

\* a parent-aware call that issued the open-item and the child query
C20_Witness ==
    /\ pc = "done" /\ outcome = "Report" /\ prioritize_parents
    /\ Len(http_log) >= 2
    /\ http_log[1].kind = "open" /\ http_log[2].kind = "children"
    /\ http_log[2].query.parent_in = parent_ids
    /\ http_log[1].query.team_project = "proj"

\* save_configuration has returned
Saved == step \in {"inject", "complete"}

\* the mcpServers object of mcp.json
WrittenServers == DictGet(mcp_json.root.members, "mcpServers", JsonNull)

\* C21: when .roo/mcp.json holds invalid JSON, save_configuration warns
\* and still completes without raising: it writes a file whose mcpServers
\* are the generated entries, and .gitignore and .env are updated.
C21_InvalidJsonFallback ==
    "invalid_json_warning" \in Range(console) =>
        /\ fault = "none"
        /\ Saved
        /\ mcp_json.valid
        /\ WrittenServers = Json("object", config_data)
        /\ MentionsEntry(gitignore.text, ".roo/")
        /\ \A i \in 1..Len(collected_secrets) :
               <<collected_secrets[i][1]>> \in existing_keys(env_file.text)

GeneratedNames == {"github", "azure-devops", "burndown-manager"}

ServersOf(file) == DictGet(file.root.members, "mcpServers", JsonNull).members

\* the frame of save_configuration on mcp.json: top-level keys other than
\* mcpServers and entries under other names are kept, and the three
\* generated entries are set
McpMerged(old, new, generated) ==
    /\ new.exists /\ new.valid /\ new.root.type = "object"
    /\ DictKeys(new.root.members) = DictKeys(old.root.members) \cup {"mcpServers"}
    /\ \A k \in DictKeys(old.root.members) \ {"mcpServers"} :
           DictGet(new.root.members, k, JsonNull)
               = DictGet(old.root.members, k, JsonNull)
    /\ DictKeys(ServersOf(new)) = DictKeys(ServersOf(old)) \cup GeneratedNames
    /\ \A n \in DictKeys(ServersOf(old)) \ GeneratedNames :
           DictGet(ServersOf(new), n, JsonNull) = DictGet(ServersOf(old), n, JsonNull)
    /\ \A n \in GeneratedNames :
           DictGet(ServersOf(new), n, JsonNull) = DictGet(generated, n, JsonNull)

\* C22: when .roo/mcp.json holds valid JSON, save_configuration keeps every
\* top-level key other than mcpServers and every mcpServers entry not named
\* github, azure-devops or burndown-manager, and sets exactly those three
\* entries to the generated configuration.
C22_MergeKeepsOthers ==
    [][(step = "save" /\ mcp_json.exists /\ mcp_json.valid)
           => /\ step' = "inject"
              /\ McpMerged(mcp_json, mcp_json', config_data)]_vars

\* the lines the claim expects appended: KEY=value for each secret whose
\* key the text does not assign, in the order the secrets were collected
RECURSIVE ExpectedAppend(_, _)
ExpectedAppend(secrets, keys) ==
    IF secrets = <<>> THEN <<>>
    ELSE (IF <<Head(secrets)[1]>> \in keys THEN <<>>
          ELSE <<Head(secrets)[1], "=">> \o Head(secrets)[2] \o <<"\n">>)
         \o ExpectedAppend(Tail(secrets), keys)

HasMount(file) ==
    file.data.mounts.kind = "list" /\ mount_exists(file.data.mounts.list)

\* C24: after inject_devcontainer_config rewrites a devcontainer.json that
\* lacked the persistence mount, also one without a mounts key, the mounts
\* list of the rewritten file contains the mount source=vscode-server-data,
\* target=/home/vscode/.vscode-server/data,type=volume.
C24_MountInjected ==
    [][(/\ step = "inject1"
        /\ devcontainer.exists /\ devcontainer.valid
        /\ ~HasMount(devcontainer)
        /\ inject_devcontainer_config(devcontainer).message = "updated")
       => (/\ devcontainer'.data.mounts.kind = "list"
           /\ mount_str \in Range(devcontainer'.data.mounts.list))]_vars

\* the steps of cmd end with the steps of old
EndsWith(cmd, old) ==
    /\ Len(cmd) >= Len(old)
    /\ SubSeq(cmd, Len(cmd) - Len(old) + 1, Len(cmd)) = old

\* C25: inject_devcontainer_config is idempotent: the first successful run
\* keeps an existing postCreateCommand as the last steps of the new one, and
\* a second run on the file it wrote finds the extension, the mount and the
\* command steps, reports up to date and leaves the file as it is.
C25_InjectIdempotent ==
    [][/\ (/\ step = "inject1"
           /\ inject_devcontainer_config(devcontainer).message = "updated"
           /\ devcontainer.data.postCreateCommand.kind = "string"
           /\ ~IsBlank(devcontainer.data.postCreateCommand.steps))
          => EndsWith(devcontainer'.data.postCreateCommand.steps,
                      devcontainer.data.postCreateCommand.steps)
       /\ (step = "inject2" /\ console = <<"updated">>)
          => (/\ ROO_EXTENSION_ID \in Range(devcontainer.data.extensions.list)
              /\ HasMount(devcontainer)
              /\ has_python_install(devcontainer.data.postCreateCommand.steps)
              /\ console' = <<"updated", "up_to_date">>
              /\ devcontainer' = devcontainer)]_vars

\* C26: after inject_devcontainer_config succeeds, postCreateCommand holds
\* the step that installs .roo/requirements.txt into .roo/venv, whatever the
\* command was before.
C26_RooRequirementsInstalled ==
    (/\ step \in {"inject2", "injected"}
     /\ console[Len(console)] \in {"updated", "up_to_date"})
    => ".roo/venv/bin/pip install -r .roo/requirements.txt"
           \in Range(devcontainer.data.postCreateCommand.steps)

\* the profile configure_profile selects (lines 100-110): the value of the
\* environment variable when set, else the name collected from the prompt
SelectedProfile(env, secrets) ==
    IF env["ROO_CODE_PROFILE_NAME"] # <<>> THEN env["ROO_CODE_PROFILE_NAME"]
    ELSE DictGet(secrets, "ROO_CODE_PROFILE_NAME", <<"default">>)

\* ROO_CODE_PROFILE_NAME of the generated burndown-manager entry
GeneratedProfile ==
    DictGet(DictGet(config_data, "burndown-manager", OldConfig("none")).env,
            "ROO_CODE_PROFILE_NAME", <<>>)

\* C27: the ROO_CODE_PROFILE_NAME of the burndown-manager entry is the
\* profile configure_profile selected: the value of the environment
\* variable when it is set, otherwise the typed name, otherwise default.
C27_EntryProfileIsSelected ==
    config_data # <<>> =>
        GeneratedProfile = SelectedProfile(os_environ, collected_secrets)

====
